---- MODULE Spec2Model ----
(***************************************************************************)
(* A model of src/script.js: the BlessingManager singleton (corpus,        *)
(* loaded window, displayed set, page cursor), PageManager.clickCount and  *)
(* the localStorage record kept under '1024_blessing_progress'.            *)
(*                                                                         *)
(* JavaScript values that meet in one Set are tagged with their type:      *)
(* Str(t) is the string t, Num(n) the number n; a Set never identifies a   *)
(* string with a number.  Time is counted in milliseconds from the first   *)
(* page load; only differences of Date.now() values are read by the code.  *)
(*                                                                         *)
(* Taken from the environment: the corpus strings and category names are   *)
(* non-empty; the elements showBlessing writes to exist in the document;   *)
(* localStorage.getItem and removeItem succeed; localStorage.setItem       *)
(* either succeeds throughout a behaviour or throws throughout it          *)
(* (quotaExceeded); a stored object has fields of the types saveProgress   *)
(* writes.  The clock moves between page loads.                            *)
(*                                                                         *)
(* Spec is the page with a valid database: BlessingManager.init runs at    *)
(* the first attempt of the start-up.  SpecStartup follows AppInitializer  *)
(* through its awaits and timers when the database may be undefined or an  *)
(* empty mapping; the answer of each network probe and of the confirm      *)
(* dialog is free, a database that was undefined may get defined while     *)
(* the start-up waits (the script declaring it finishes loading), and      *)
(* window.BLESSING_DATABASE assigned by loadFallbackData is the binding     *)
(* loadAllBlessings reads.  SpecPaging                                     *)
(* runs the selector over a corpus longer than the look-ahead threshold.   *)
(* SpecClick splits a show into the trigger (handleButtonClick) and the    *)
(* 300 ms timer that calls showBlessing; in the other specifications the   *)
(* two are one step.  SpecCompletion follows the completion panel and the  *)
(* 1000 ms timer that opens it; the other specifications do not (there     *)
(* completionTimers stays 0 and modalShown FALSE).                         *)
(***************************************************************************)
EXTENDS Integers, Sequences, FiniteSets, TLC

VARIABLES
    db,                  \* window.BLESSING_DATABASE: sequence of [category, blessings]
    allBlessings,        \* BlessingManager.allBlessings
    loadedBlessings,     \* BlessingManager.loadedBlessings
    displayedBlessings,  \* BlessingManager.displayedBlessings (a JS Set)
    currentBlessing,     \* BlessingManager.currentBlessing
    currentPage,         \* BlessingManager.currentPage
    pageSize,            \* BlessingManager.pageSize
    clickCount,          \* PageManager.clickCount
    storage,             \* localStorage item under BlessingManager.storageKey
    now,                 \* Date.now(), in ms since the first page load
    pc,                  \* "loading": script evaluated, init not yet run; "ready";
                         \* the positions of the start-up in between, see AppInit
    lastOp,              \* the handler that ran last
    picked,              \* what the last getRandomUnDisplayedBlessing call returned
    saveOk,              \* outcome of the last saveProgress call of the last handler
    loadOutcome,         \* what loadProgress did in the last handler
    restored,            \* loadProgress restored a stored record in this page session
    completionScheduled, \* the last showBlessing scheduled showCompletion (l.726-728)
    quotaExceeded,       \* the store rejects writes: localStorage.setItem throws
    attempt,             \* retryOperation's loop variable at its last iteration
    attempts,            \* executions of the start-up operation since the page load
    errorCode,           \* code of the error panel showErrorMessage added last
    delay,               \* ms of the timer retryOperation awaits, 0 if it awaits none
    isOnline,            \* what the last checkNetworkConnection resolved to:
                         \* "online", "offline"; "none" once the start-up
                         \* operation has run again
    disabled,            \* blessingDisplay.disabled, the flag of handleButtonClick
    pendingCallbacks,    \* timers of handleButtonClick set and not yet fired
    completionTimers,    \* timers of l.727 set and not yet fired, where followed
    modalShown           \* completionModal is displayed, where followed

vars == <<db, allBlessings, loadedBlessings, displayedBlessings, currentBlessing,
          currentPage, pageSize, clickCount, storage, now, pc, lastOp, picked,
          saveOk, loadOutcome, restored, completionScheduled, quotaExceeded,
          attempt, attempts, errorCode, delay, isOnline, disabled,
          pendingCallbacks, completionTimers,
          modalShown>>

-----------------------------------------------------------------------------
(* Bounds of the model *)

MaxItems == 2
MaxPageSize == 2
MaxClicks == 3
MaxReloads == 1
MaxAttempts == 5
PagingItems == 11
MaxShuffle == 4
MaxTimers == 2

(* Program constants *)

Threshold == 10
ExpiryDays == 7
DayMs == 1000 * 60 * 60 * 24
ExpiryMs == ExpiryDays * DayMs
MaxRetries == 3
RetryDelay == 1000

-----------------------------------------------------------------------------
(* JavaScript values *)

Str(s) == <<"string", s>>
Num(n) == <<"number", n>>

\* null / undefined where a blessing object is expected
Null == [text |-> "<null>", category |-> "<null>"]

Min(a, b) == IF a < b THEN a ELSE b

Range(s) == {s[i] : i \in 1..Len(s)}

\* Array.from(set): some enumeration of the set without repetition
RECURSIVE ArrayFrom(_)
ArrayFrom(S) ==
    IF S = {} THEN <<>>
    ELSE LET x == CHOOSE y \in S : TRUE IN <<x>> \o ArrayFrom(S \ {x})

-----------------------------------------------------------------------------
(* The corpus source *)

Texts == <<"A", "B", "C", "D", "E">>
XTexts == {"A", "C", "E"}

\* a database of n blessings with pairwise distinct texts in two categories
Database(n) ==
    << [category |-> "x",
        blessings |-> SelectSeq(SubSeq(Texts, 1, n), LAMBDA t : t \in XTexts)],
       [category |-> "y",
        blessings |-> SelectSeq(SubSeq(Texts, 1, n), LAMBDA t : t \notin XTexts)] >>

\* a database in which two categories hold the same wording
DupDatabase ==
    << [category |-> "x", blessings |-> <<"A">>],
       [category |-> "y", blessings |-> <<"A">>] >>

Databases == {Database(n) : n \in 0..MaxItems} \cup {DupDatabase}

\* a database of one category with more items than the look-ahead threshold
PagingTexts == <<"P01", "P02", "P03", "P04", "P05", "P06", "P07", "P08", "P09",
                 "P10", "P11", "P12", "P13">>

PagingDatabase ==
    << [category |-> "p", blessings |-> SubSeq(PagingTexts, 1, PagingItems)] >>

\* page sizes below and above the threshold
PagingPageSizes == {1, PagingItems - 1}

\* typeof BLESSING_DATABASE === 'undefined': the data script did not load
Undefined == <<[category |-> "<undefined>", blessings |-> <<>>]>>

\* a mapping without keys
EmptyMapping == <<>>

\* the mapping loadFallbackData assigns: three categories, five strings
FallbackData ==
    << [category |-> "f", blessings |-> <<"F1", "F2">>],
       [category |-> "g", blessings |-> <<"G1", "G2">>],
       [category |-> "h", blessings |-> <<"H1">>] >>

StartupDatabases == {Undefined, EmptyMapping, Database(1), Database(MaxItems)}

-----------------------------------------------------------------------------
(* BlessingManager: the fields as one record, so that the methods compose *)

BM == [allBlessings       |-> allBlessings,
       loadedBlessings    |-> loadedBlessings,
       displayedBlessings |-> displayedBlessings,
       currentBlessing    |-> currentBlessing,
       currentPage        |-> currentPage,
       clickCount         |-> clickCount]

\* the object literals of BlessingManager and PageManager
FreshBM == [allBlessings       |-> <<>>,
            loadedBlessings    |-> <<>>,
            displayedBlessings |-> {},
            currentBlessing    |-> Null,
            currentPage        |-> 0,
            clickCount         |-> 0]

SetBM(bm) ==
    /\ allBlessings' = bm.allBlessings
    /\ loadedBlessings' = bm.loadedBlessings
    /\ displayedBlessings' = bm.displayedBlessings
    /\ currentBlessing' = bm.currentBlessing
    /\ currentPage' = bm.currentPage
    /\ clickCount' = bm.clickCount

\* loadAllBlessings, the for-in loop: the items in database order
RECURSIVE Flatten(_)
Flatten(d) ==
    IF d = <<>> THEN <<>>
    ELSE [i \in 1..Len(d[1].blessings) |->
             [text |-> d[1].blessings[i], category |-> d[1].category]]
         \o Flatten(Tail(d))

Swap(array, i, j) == [array EXCEPT ![i] = array[j], ![j] = array[i]]

\* shuffleArray: i runs from the last position down to the second, j is drawn
\* from the positions up to i; the set of arrays the loop can leave
RECURSIVE ShuffleFrom(_, _)
\* a shuffle that never leaves an element where it is (j drawn below i)
ShuffleFromBelow(array, i) ==
    IF i <= 1 THEN {array}
    ELSE UNION {ShuffleFrom(Swap(array, i, j), i - 1) : j \in 1..(i - 1)}

ShuffleFrom(array, i) ==
    IF i <= 1 THEN {array}
    ELSE UNION {ShuffleFrom(Swap(array, i, j), i - 1) : j \in 1..i}

ShuffleArray(array) == ShuffleFrom(array, Len(array))

LoadAllBlessings(bm, d) ==
    {[bm EXCEPT !.allBlessings = a] : a \in ShuffleArray(Flatten(d))}

\* loadNextPage with the page one item short
LoadNextPageShort(bm, ps) ==
    LET startIndex == bm.currentPage * ps
        endIndex == Min(startIndex + ps, Len(bm.allBlessings)) - 1
        page == IF startIndex < endIndex
                THEN SubSeq(bm.allBlessings, startIndex + 1, endIndex)
                ELSE <<>>
    IN [bm EXCEPT !.loadedBlessings = @ \o page,
                  !.currentPage = @ + 1]

\* loadNextPage leaving the page cursor where it was
LoadNextPageKeepsCursor(bm, ps) ==
    LET startIndex == bm.currentPage * ps
        endIndex == Min(startIndex + ps, Len(bm.allBlessings))
        page == IF startIndex < endIndex
                THEN SubSeq(bm.allBlessings, startIndex + 1, endIndex)
                ELSE <<>>
    IN [bm EXCEPT !.loadedBlessings = @ \o page]

LoadNextPage(bm, ps) ==
    LET startIndex == bm.currentPage * ps
        endIndex == Min(startIndex + ps, Len(bm.allBlessings))
        page == IF startIndex < endIndex
                THEN SubSeq(bm.allBlessings, startIndex + 1, endIndex)
                ELSE <<>>
    IN [bm EXCEPT !.loadedBlessings = @ \o page,
                  !.currentPage = @ + 1]

-----------------------------------------------------------------------------
(* Persistence *)

\* What localStorage.getItem returns, by what JSON.parse makes of it:
\*   "absent"  no item (null)          "empty"   the empty string
\*   "garbage" not JSON                "null" "number" "string" "boolean"
\*   "array"   a JSON array            "object"  a JSON object
\* An object carries the fields named in has.
StoredValue(kind) ==
    [kind |-> kind, has |-> {}, displayedBlessings |-> <<>>,
     currentPage |-> 0, clickCount |-> 0, timestamp |-> 0]

Absent == StoredValue("absent")

ForeignValues ==
    {StoredValue(k) : k \in {"absent", "empty", "garbage", "null", "number",
                             "string", "boolean", "array"}}

AllFields == {"displayedBlessings", "currentPage", "clickCount", "timestamp"}

\* a progress object written without its clickCount
StringifyNoClickCount(bm, t) ==
    [kind |-> "object", has |-> AllFields \ {"clickCount"},
     displayedBlessings |-> ArrayFrom(bm.displayedBlessings),
     currentPage |-> bm.currentPage,
     clickCount |-> 0,
     timestamp |-> t]

\* JSON.stringify(progress) of saveProgress
Stringify(bm, t) ==
    [kind |-> "object", has |-> AllFields,
     displayedBlessings |-> ArrayFrom(bm.displayedBlessings),
     currentPage |-> bm.currentPage,
     clickCount |-> bm.clickCount,
     timestamp |-> t]

\* a saveProgress whose catch block removes the stored record
SaveProgressFailClears(bm, st, t, full) ==
    IF full
    THEN [bm |-> bm, storage |-> StoredValue("absent"), saveOk |-> "failed"]
    ELSE [bm |-> bm, storage |-> Stringify(bm, t), saveOk |-> "ok"]

\* saveProgress at time t; full: localStorage.setItem throws (quota exceeded)
\* and the catch block shows a warning
SaveProgress(bm, st, t, full) ==
    IF full
    THEN [bm |-> bm, storage |-> st, saveOk |-> "failed"]
    ELSE [bm |-> bm, storage |-> Stringify(bm, t), saveOk |-> "ok"]

\* clearProgress
ClearProgress(st) == Absent

\* an expiry test that discards a record at seven days sharp
ExpiredFromSevenDays(st, t) ==
    "timestamp" \in st.has /\ (t - st.timestamp) >= ExpiryDays * DayMs

\* daysPassed > 7 (l.76-77): a missing timestamp gives NaN and NaN > 7 is
\* false; age / DayMs > 7 exactly when age > 7 * DayMs
Expired(st, t) ==
    "timestamp" \in st.has /\ (t - st.timestamp) > ExpiryDays * DayMs

\* a loadProgress that rejects a progress object lacking a field
LoadProgressStrict(bm, st, t) ==
    IF st.kind \in {"absent", "empty"}
    THEN [bm |-> bm, storage |-> st, outcome |-> "none"]
    ELSE IF st.kind \in {"garbage", "null", "number", "string", "boolean"}
            \/ (st.kind = "object" /\ st.has # AllFields)
    THEN [bm |-> bm, storage |-> ClearProgress(st), outcome |-> "invalid"]
    ELSE IF Expired(st, t)
         THEN [bm |-> bm, storage |-> ClearProgress(st), outcome |-> "expired"]
         ELSE [bm |-> [bm EXCEPT
                         !.displayedBlessings = Range(st.displayedBlessings),
                         !.currentPage = st.currentPage,
                         !.clickCount = st.clickCount],
               storage |-> st,
               outcome |-> "restored"]

\* loadProgress, with the record found in the store at time t
LoadProgress(bm, st, t) ==
    IF st.kind \in {"absent", "empty"}
    THEN \* if (saved) is false
         [bm |-> bm, storage |-> st, outcome |-> "none"]
    ELSE IF st.kind \in {"garbage", "null", "number", "string", "boolean"}
    THEN \* JSON.parse throws, or the format check throws: catch, clearProgress
         [bm |-> bm, storage |-> ClearProgress(st), outcome |-> "invalid"]
    ELSE \* typeof progress === 'object': objects and arrays
         IF Expired(st, t)
         THEN [bm |-> bm, storage |-> ClearProgress(st), outcome |-> "expired"]
         ELSE [bm |-> [bm EXCEPT
                         !.displayedBlessings =
                             IF "displayedBlessings" \in st.has
                             THEN Range(st.displayedBlessings) ELSE {},
                         !.currentPage =
                             IF "currentPage" \in st.has THEN st.currentPage ELSE 0,
                         !.clickCount =
                             IF "clickCount" \in st.has THEN st.clickCount ELSE 0],
               storage |-> st,
               outcome |-> "restored"]

-----------------------------------------------------------------------------
(* Search *)

\* String.prototype.toLowerCase on the strings of the databases of Databases
ToLowerCase(str) ==
    CASE str = "A" -> "a"
      [] str = "B" -> "b"
      [] str = "C" -> "c"
      [] str = "D" -> "d"
      [] str = "E" -> "e"
      [] str = "Y" -> "y"
      [] OTHER -> str

\* keywords typed into the search box: empty, blank, and one-letter words in
\* either case that match a text, a category or nothing
Keywords == {"", " ", "a", "A", "b", "x", "Y", "q"}

\* keyword.trim() on these keywords
Trim(keyword) == IF keyword = " " THEN "" ELSE keyword

\* haystack.includes(needle) where both are one character long
Includes(haystack, needle) == haystack = needle

\* searchBlessings(keyword): the matching items in corpus order, each with its
\* 0-based index and displayed: this.displayedBlessings.has(index)
SearchBlessings(bm, keyword) ==
    IF keyword = "" \/ Trim(keyword) = ""
    THEN <<>>
    ELSE LET searchTerm == Trim(ToLowerCase(keyword))
             matches(i) ==
                 \/ Includes(ToLowerCase(bm.allBlessings[i].text), searchTerm)
                 \/ Includes(ToLowerCase(bm.allBlessings[i].category), searchTerm)
             all == [i \in 1..Len(bm.allBlessings) |->
                        [text |-> bm.allBlessings[i].text,
                         category |-> bm.allBlessings[i].category,
                         index |-> i - 1,
                         displayed |-> Num(i - 1) \in bm.displayedBlessings,
                         match |-> matches(i)]]
             found == SelectSeq(all, LAMBDA r : r.match)
         IN [k \in 1..Len(found) |->
                [text |-> found[k].text, category |-> found[k].category,
                 index |-> found[k].index, displayed |-> found[k].displayed]]

-----------------------------------------------------------------------------
(* Selection *)

\* a filter that asks the Set for the blessing object, which it never holds
UnDisplayedByObject(bm) == bm.loadedBlessings

\* loadedBlessings.filter(blessing => !displayedBlessings.has(blessing.text))
UnDisplayed(bm) ==
    SelectSeq(bm.loadedBlessings,
              LAMBDA b : Str(b.text) \notin bm.displayedBlessings)

\* a pick that loads a page only when the window holds no unseen item
GetRandomUnDisplayedBlessingLazy(bm, ps) ==
    LET morePages == bm.currentPage * ps < Len(bm.allBlessings)
        bm2 == IF Len(UnDisplayed(bm)) = 0 /\ morePages
               THEN LoadNextPage(bm, ps) ELSE bm
        updatedUnDisplayed == UnDisplayed(bm2)
    IN IF Len(updatedUnDisplayed) = 0
       THEN {[bm |-> bm2, result |-> Null]}
       ELSE {[bm |-> bm2, result |-> updatedUnDisplayed[k]] :
                k \in 1..Len(updatedUnDisplayed)}

\* a pick that loads a page whenever one remains, however many unseen items
\* the window holds
GetRandomUnDisplayedBlessingEager(bm, ps) ==
    LET morePages == bm.currentPage * ps < Len(bm.allBlessings)
        bm2 == IF morePages THEN LoadNextPage(bm, ps) ELSE bm
        updatedUnDisplayed == UnDisplayed(bm2)
    IN IF Len(updatedUnDisplayed) = 0
       THEN {[bm |-> bm2, result |-> Null]}
       ELSE {[bm |-> bm2, result |-> updatedUnDisplayed[k]] :
                k \in 1..Len(updatedUnDisplayed)}

\* getRandomUnDisplayedBlessing: the set of [bm, result] the call can end in;
\* result = Null is the exhausted signal
RECURSIVE GetRandomUnDisplayedBlessing(_, _)
GetRandomUnDisplayedBlessing(bm, ps) ==
    LET loadedUnDisplayed == UnDisplayed(bm)
        morePages == bm.currentPage * ps < Len(bm.allBlessings)
    IN IF Len(loadedUnDisplayed) < Threshold /\ morePages
       THEN LET bm2 == LoadNextPage(bm, ps)
                updatedUnDisplayed == UnDisplayed(bm2)
            IN IF Len(updatedUnDisplayed) = 0
               THEN {[bm |-> bm2, result |-> Null]}
               ELSE {[bm |-> bm2, result |-> updatedUnDisplayed[k]] :
                        k \in 1..Len(updatedUnDisplayed)}
       ELSE IF Len(loadedUnDisplayed) = 0
       THEN IF Cardinality(bm.displayedBlessings) >= Len(bm.allBlessings)
            THEN {[bm |-> bm, result |-> Null]}
            ELSE IF morePages
                 THEN GetRandomUnDisplayedBlessing(LoadNextPage(bm, ps), ps)
                 ELSE {[bm |-> bm, result |-> Null]}
       ELSE {[bm |-> bm, result |-> loadedUnDisplayed[k]] :
                k \in 1..Len(loadedUnDisplayed)}

\* showBlessing l.675-720: the blessing becomes current, its text is added to
\* the displayed set, the click count goes up
\* showBlessing keeping only the item it shows in the displayed set
MarkSeenForgets(bm, blessing) ==
    [bm EXCEPT !.currentBlessing = blessing,
               !.displayedBlessings = {Str(blessing.text)},
               !.clickCount = @ + 1]

MarkSeen(bm, blessing) ==
    [bm EXCEPT !.currentBlessing = blessing,
               !.displayedBlessings = @ \cup {Str(blessing.text)},
               !.clickCount = @ + 1]

\* showBlessing l.726: the completion check
IsComplete(bm) == Cardinality(bm.displayedBlessings) >= Len(bm.allBlessings)

\* showBlessing(specificBlessing), from a state bm with the store st at time t:
\* the set of outcomes over the random pick
ShowBlessingOutcomes(bm, st, t, ps, specificBlessing, full) ==
    LET picks == IF specificBlessing # Null
                 THEN {[bm |-> bm, result |-> specificBlessing]}
                 ELSE GetRandomUnDisplayedBlessing(bm, ps)
    IN UNION {
         IF p.result = Null
         THEN \* showCompletion(); return
              {[bm |-> p.bm, storage |-> st, picked |-> p.result,
                saveOk |-> "none", completion |-> FALSE]}
         ELSE IF p.result.text = "" \/ p.result.category = ""
         THEN \* throws before anything is marked; the catch shows a default text
              {[bm |-> p.bm, storage |-> st, picked |-> p.result,
                saveOk |-> "none", completion |-> FALSE]}
         ELSE LET saved == SaveProgress(MarkSeen(p.bm, p.result), st, t, full)
              IN {[bm |-> saved.bm, storage |-> saved.storage,
                   picked |-> p.result, saveOk |-> saved.saveOk,
                   completion |-> IsComplete(saved.bm)]}
         : p \in picks}

\* a showSpecificBlessing that counts the pushed item as a loaded page
ShowSpecificBlessingOutcomesAdvancing(bm, st, t, ps, index, full) ==
    IF index < 0 \/ index >= Len(bm.allBlessings)
    THEN {[bm |-> bm, storage |-> st, saveOk |-> "none", completion |-> FALSE]}
    ELSE LET blessing == bm.allBlessings[index + 1]
             bm1 == IF \E i \in 1..Len(bm.loadedBlessings) :
                          bm.loadedBlessings[i].text = blessing.text
                    THEN bm
                    ELSE [bm EXCEPT !.loadedBlessings = Append(@, blessing),
                                    !.currentPage = @ + 1]
         IN {LET bm2 == [o.bm EXCEPT !.displayedBlessings = @ \cup {Num(index)}]
                 saved == SaveProgress(bm2, o.storage, t, full)
             IN [bm |-> saved.bm, storage |-> saved.storage,
                 saveOk |-> saved.saveOk, completion |-> o.completion]
             : o \in ShowBlessingOutcomes(bm1, st, t, ps, blessing, full)}

\* a showSpecificBlessing that saves the progress before it returns on an
\* index outside the array
ShowSpecificBlessingOutcomesSaving(bm, st, t, ps, index, full) ==
    IF index < 0 \/ index >= Len(bm.allBlessings)
    THEN {LET saved == SaveProgress(bm, st, t, full)
          IN [bm |-> saved.bm, storage |-> saved.storage,
              saveOk |-> "none", completion |-> FALSE]}
    ELSE LET blessing == bm.allBlessings[index + 1]
             bm1 == IF \E i \in 1..Len(bm.loadedBlessings) :
                          bm.loadedBlessings[i].text = blessing.text
                    THEN bm
                    ELSE [bm EXCEPT !.loadedBlessings = Append(@, blessing)]
         IN {LET bm2 == [o.bm EXCEPT !.displayedBlessings = @ \cup {Num(index)}]
                 saved == SaveProgress(bm2, o.storage, t, full)
             IN [bm |-> saved.bm, storage |-> saved.storage,
                 saveOk |-> saved.saveOk, completion |-> o.completion]
             : o \in ShowBlessingOutcomes(bm1, st, t, ps, blessing, full)}

\* showSpecificBlessing(index), index counted from 0 as in the source: the set
\* of outcomes; an index outside the array finds undefined and returns
ShowSpecificBlessingOutcomes(bm, st, t, ps, index, full) ==
    IF index < 0 \/ index >= Len(bm.allBlessings)
    THEN {[bm |-> bm, storage |-> st, saveOk |-> "none", completion |-> FALSE]}
    ELSE LET blessing == bm.allBlessings[index + 1]
             bm1 == IF \E i \in 1..Len(bm.loadedBlessings) :
                          bm.loadedBlessings[i].text = blessing.text
                    THEN bm
                    ELSE [bm EXCEPT !.loadedBlessings = Append(@, blessing)]
         IN {LET bm2 == [o.bm EXCEPT !.displayedBlessings = @ \cup {Num(index)}]
                 saved == SaveProgress(bm2, o.storage, t, full)
             IN [bm |-> saved.bm, storage |-> saved.storage,
                 saveOk |-> saved.saveOk, completion |-> o.completion]
             : o \in ShowBlessingOutcomes(bm1, st, t, ps, blessing, full)}

\* a reset that keeps the loaded window and appends the first page to it
ResetBMKeepsWindow(bm, ps) ==
    LoadNextPage([bm EXCEPT !.displayedBlessings = {},
                            !.currentBlessing = Null,
                            !.currentPage = 0,
                            !.clickCount = 0], ps)

\* a reset that keeps the displayed set
ResetBMKeepsSeen(bm, ps) ==
    LoadNextPage([bm EXCEPT !.currentBlessing = Null,
                            !.loadedBlessings = <<>>,
                            !.currentPage = 0,
                            !.clickCount = 0], ps)

\* reset l.842-852 and PageManager.resetClickCount
ResetBM(bm, ps) ==
    LoadNextPage([bm EXCEPT !.displayedBlessings = {},
                            !.currentBlessing = Null,
                            !.loadedBlessings = <<>>,
                            !.currentPage = 0,
                            !.clickCount = 0], ps)

-----------------------------------------------------------------------------
(* The state machine *)

Init ==
    /\ db \in Databases
    /\ pageSize \in 1..MaxPageSize
    /\ storage \in ForeignValues
    /\ allBlessings = FreshBM.allBlessings
    /\ loadedBlessings = FreshBM.loadedBlessings
    /\ displayedBlessings = FreshBM.displayedBlessings
    /\ currentBlessing = FreshBM.currentBlessing
    /\ currentPage = FreshBM.currentPage
    /\ clickCount = FreshBM.clickCount
    /\ now = 0
    /\ pc = "loading"
    /\ lastOp = "load"
    /\ picked = Null
    /\ saveOk = "none"
    /\ loadOutcome = "none"
    /\ restored = FALSE
    /\ completionScheduled = FALSE
    /\ quotaExceeded \in BOOLEAN
    /\ attempt = 0
    /\ attempts = 0
    /\ errorCode = "none"
    /\ delay = 0
    /\ isOnline = "none"
    /\ disabled = FALSE
    /\ pendingCallbacks = 0
    /\ completionTimers = 0
    /\ modalShown = FALSE

\* BlessingManager.init: loadAllBlessings, loadProgress, loadNextPage
BMInit ==
    /\ pc = "loading"
    /\ \E bm1 \in LoadAllBlessings(BM, db) :
          LET r == LoadProgress(bm1, storage, now)
          IN /\ SetBM(LoadNextPage(r.bm, pageSize))
             /\ storage' = r.storage
             /\ loadOutcome' = r.outcome
             /\ restored' = (r.outcome = "restored")
    /\ pc' = "ready"
    /\ lastOp' = "init"
    /\ picked' = Null
    /\ saveOk' = "none"
    /\ completionScheduled' = FALSE
    /\ attempt' = 1
    /\ attempts' = attempts + 1
    /\ UNCHANGED <<db, pageSize, now, quotaExceeded, errorCode, delay,
                   isOnline, disabled, pendingCallbacks, completionTimers,
                   modalShown>>

\* the callback the click and key listeners hand to handleButtonClick:
\* showBlessing()
ShowBlessingCallback ==
    /\ pc = "ready"
    /\ \E o \in ShowBlessingOutcomes(BM, storage, now, pageSize, Null, quotaExceeded) :
          /\ o.saveOk = "none" \/ clickCount < MaxClicks
          /\ SetBM(o.bm)
          /\ storage' = o.storage
          /\ picked' = o.picked
          /\ saveOk' = o.saveOk
          /\ completionScheduled' = o.completion
    /\ lastOp' = "show"
    /\ loadOutcome' = "none"
    /\ UNCHANGED <<db, pageSize, now, pc, restored, quotaExceeded,
                   attempt, attempts, errorCode, delay, isOnline>>

\* a click or key press on an enabled display together with the timer it
\* sets: handleButtonClick finds the flag clear and the callback clears it
\* again
ShowBlessing ==
    /\ ~disabled
    /\ ShowBlessingCallback
    /\ UNCHANGED <<disabled, pendingCallbacks, completionTimers,
                   modalShown>>

\* the page is closed and opened again after d ms: the script's objects are
\* created anew, the store is kept
PageReload ==
    /\ \E d \in {ExpiryMs, ExpiryMs + 1} :
          /\ now + d <= MaxReloads * (ExpiryMs + 1)
          /\ now' = now + d
    /\ SetBM(FreshBM)
    /\ pc' = "loading"
    /\ lastOp' = "load"
    /\ picked' = Null
    /\ saveOk' = "none"
    /\ loadOutcome' = "none"
    /\ restored' = FALSE
    /\ completionScheduled' = FALSE
    /\ attempt' = 0
    /\ attempts' = 0
    /\ errorCode' = "none"
    /\ delay' = 0
    /\ isOnline' = "none"
    /\ disabled' = FALSE
    /\ pendingCallbacks' = 0
    /\ completionTimers' = 0
    /\ modalShown' = FALSE
    /\ UNCHANGED <<db, pageSize, storage, quotaExceeded>>

\* a search result is selected: showSpecificBlessing(index)
ShowSpecificBlessing ==
    /\ pc = "ready"
    /\ \E index \in -1..Len(allBlessings) :
          \E o \in ShowSpecificBlessingOutcomes(BM, storage, now, pageSize, index,
                                          quotaExceeded) :
             /\ o.saveOk = "none" \/ clickCount < MaxClicks
             /\ SetBM(o.bm)
             /\ storage' = o.storage
             /\ saveOk' = o.saveOk
             /\ completionScheduled' = o.completion
    /\ lastOp' = "select"
    /\ picked' = Null
    /\ loadOutcome' = "none"
    /\ UNCHANGED <<db, pageSize, now, pc, restored, quotaExceeded,
                   attempt, attempts, errorCode, delay, isOnline, disabled,
                   pendingCallbacks, completionTimers,
                   modalShown>>

\* the restart button: reset(); closeCompletion hides the panel (l.866) and
\* no timer is cleared
Reset ==
    /\ pc = "ready"
    /\ SetBM(ResetBM(BM, pageSize))
    /\ storage' = ClearProgress(storage)
    /\ lastOp' = "reset"
    /\ picked' = Null
    /\ saveOk' = "none"
    /\ completionScheduled' = FALSE
    /\ loadOutcome' = "none"
    /\ modalShown' = FALSE
    /\ UNCHANGED <<db, pageSize, now, pc, restored, quotaExceeded,
                   attempt, attempts, errorCode, delay, isOnline, disabled,
                   pendingCallbacks, completionTimers>>

Next ==
    \/ BMInit
    \/ ShowBlessing
    \/ ShowSpecificBlessing
    \/ Reset
    \/ PageReload

Spec == Init /\ [][Next]_vars

-----------------------------------------------------------------------------
(* Start-up: AppInitializer                                                *)
(* pc follows the awaits and timers of the start-up:                       *)
(*   "loading"          DOMContentLoaded has not fired                     *)
(*   "probing"          retryOperation awaits checkNetworkConnection       *)
(*   "delaying"         retryOperation awaits its delay timer              *)
(*   "recoveryProbing"  attemptRecovery awaits checkNetworkConnection      *)
(*   "reinitScheduled"  the timer that calls init() again is pending       *)
(*   "confirmScheduled" the timer that asks the user to retry is pending   *)
(*   "failed"           nothing is scheduled, BlessingManager never ran    *)
(*   "ready"            BlessingManager.init has returned                  *)

\* the error the start-up operation throws before it reaches
\* BlessingManager.init (l.1141-1148), "none" if it reaches it
OperationError(d) ==
    IF d = Undefined THEN "BLESSING_DATA_MISSING"
    ELSE IF d = EmptyMapping THEN "BLESSING_DATA_INVALID"
    ELSE "none"

\* BlessingManager.init over the database d: the states it can end in
InitOutcomes(bm, d, st, t, ps) ==
    {LET r == LoadProgress(bm1, st, t)
     IN [bm |-> LoadNextPage(r.bm, ps), storage |-> r.storage, outcome |-> r.outcome]
     : bm1 \in LoadAllBlessings(bm, d)}

\* BlessingManager.init has run over the database d
InitRan(d) ==
    /\ \E o \in InitOutcomes(BM, d, storage, now, pageSize) :
          /\ SetBM(o.bm)
          /\ storage' = o.storage
          /\ loadOutcome' = o.outcome
          /\ restored' = (o.outcome = "restored")
    /\ db' = d
    /\ pc' = "ready"
    /\ lastOp' = "init"

\* iteration k of retryOperation's loop up to its next await: the operation
\* runs; if it throws and k is the last iteration the error reaches the catch
\* of AppInitializer.init: handleError shows the panel, attemptRecovery calls
\* loadFallbackData, which replaces the database and runs BlessingManager.init
RunAttempt(k) ==
    /\ attempts < MaxAttempts
    /\ attempts' = attempts + 1
    /\ attempt' = k
    /\ IF OperationError(db) = "none"
       THEN /\ InitRan(db)
            /\ UNCHANGED errorCode
       ELSE IF k = MaxRetries
       THEN /\ errorCode' = OperationError(db)
            /\ InitRan(FallbackData)
       ELSE /\ pc' = "probing"
            /\ lastOp' = "startup"
            /\ UNCHANGED <<db, allBlessings, loadedBlessings, displayedBlessings,
                           currentBlessing, currentPage, clickCount, storage,
                           loadOutcome, restored, errorCode>>
    /\ picked' = Null
    /\ saveOk' = "none"
    /\ completionScheduled' = FALSE
    /\ delay' = 0
    /\ isOnline' = "none"
    /\ UNCHANGED <<pageSize, now, quotaExceeded, disabled, pendingCallbacks, completionTimers,
                   modalShown>>

\* DOMContentLoaded: AppInitializer.init, first iteration of retryOperation
AppInit ==
    /\ pc = "loading"
    /\ RunAttempt(1)

\* what a start-up step leaves alone besides pc and errorCode
StartupFrame ==
    /\ lastOp' = "startup"
    /\ UNCHANGED <<db, allBlessings, loadedBlessings, displayedBlessings,
                   currentBlessing, currentPage, pageSize, clickCount, storage, now,
                   picked, saveOk, loadOutcome, restored, completionScheduled,
                   quotaExceeded, attempt, attempts, disabled,
                   pendingCallbacks, completionTimers,
                   modalShown>>

\* a retryOperation whose every wait is the base delay
RetryProbeConstantDelay ==
    /\ pc = "probing"
    /\ \E online \in BOOLEAN :
          IF online
          THEN /\ pc' = "delaying" /\ delay' = RetryDelay
               /\ isOnline' = "online" /\ UNCHANGED errorCode
          ELSE /\ pc' = "recoveryProbing" /\ errorCode' = "NETWORK_ERROR"
               /\ isOnline' = "offline" /\ UNCHANGED delay
    /\ StartupFrame

\* a retryOperation that waits and tries again whatever the probe says
RetryProbeUngated ==
    /\ pc = "probing"
    /\ \E online \in BOOLEAN :
          /\ pc' = "delaying" /\ delay' = RetryDelay * attempt
          /\ isOnline' = (IF online THEN "online" ELSE "offline")
          /\ UNCHANGED errorCode
    /\ StartupFrame

\* checkNetworkConnection settles in retryOperation (l.1215-1221): online
\* sets the timer of delay * attempt ms; offline throws the network error,
\* which AppInitializer.init hands to handleError under NETWORK_ERROR, and
\* attemptRecovery starts its own probe
RetryProbe ==
    /\ pc = "probing"
    /\ \E online \in BOOLEAN :
          IF online
          THEN /\ pc' = "delaying" /\ delay' = RetryDelay * attempt
               /\ isOnline' = "online" /\ UNCHANGED errorCode
          ELSE /\ pc' = "recoveryProbing" /\ errorCode' = "NETWORK_ERROR"
               /\ isOnline' = "offline" /\ UNCHANGED delay
    /\ StartupFrame

\* the script that declares BLESSING_DATABASE finishes loading while
\* retryOperation awaits its probe or its timer: typeof BLESSING_DATABASE is
\* no longer 'undefined' at the next attempt (l.1141)
DataArrives ==
    /\ pc \in {"probing", "delaying"}
    /\ db = Undefined
    /\ db' = Database(1)
    /\ UNCHANGED <<allBlessings, loadedBlessings, displayedBlessings,
                   currentBlessing, currentPage, pageSize, clickCount, storage, now,
                   pc, lastOp, picked, saveOk, loadOutcome, restored,
                   completionScheduled, quotaExceeded, attempt, attempts,
                   errorCode, delay, isOnline, disabled, pendingCallbacks, completionTimers,
                   modalShown>>

\* the delay timer of retryOperation fires: the next iteration
RetryTimer ==
    /\ pc = "delaying"
    /\ RunAttempt(attempt + 1)

\* checkNetworkConnection settles in attemptRecovery (l.1293-1306)
RecoveryProbe ==
    /\ pc = "recoveryProbing"
    /\ \E online \in BOOLEAN :
          /\ pc' = IF online THEN "reinitScheduled" ELSE "confirmScheduled"
          /\ isOnline' = (IF online THEN "online" ELSE "offline")
    /\ UNCHANGED <<errorCode, delay>>
    /\ StartupFrame

\* the timer of l.1303-1305 fires: this.init(), a new retryOperation
Reinit ==
    /\ pc = "reinitScheduled"
    /\ RunAttempt(1)

\* the timer of l.1295-1299 fires: confirm(), and location.reload() on OK
Confirm ==
    /\ pc = "confirmScheduled"
    /\ \E ok \in BOOLEAN :
          IF ok
          THEN /\ SetBM(FreshBM)
               /\ pc' = "loading"
               /\ lastOp' = "load"
               /\ attempt' = 0
               /\ attempts' = 0
               /\ errorCode' = "none"
               /\ isOnline' = "none"
          ELSE /\ pc' = "failed"
               /\ lastOp' = "startup"
               /\ UNCHANGED <<allBlessings, loadedBlessings, displayedBlessings,
                              currentBlessing, currentPage, clickCount, attempt,
                              attempts, errorCode, isOnline>>
    /\ UNCHANGED <<db, pageSize, storage, now, picked, saveOk, loadOutcome,
                   restored, completionScheduled, quotaExceeded, delay, disabled,
                   pendingCallbacks, completionTimers,
                   modalShown>>

InitStartup ==
    /\ db \in StartupDatabases
    /\ pageSize \in 1..MaxPageSize
    /\ storage \in ForeignValues
    /\ allBlessings = FreshBM.allBlessings
    /\ loadedBlessings = FreshBM.loadedBlessings
    /\ displayedBlessings = FreshBM.displayedBlessings
    /\ currentBlessing = FreshBM.currentBlessing
    /\ currentPage = FreshBM.currentPage
    /\ clickCount = FreshBM.clickCount
    /\ now = 0
    /\ pc = "loading"
    /\ lastOp = "load"
    /\ picked = Null
    /\ saveOk = "none"
    /\ loadOutcome = "none"
    /\ restored = FALSE
    /\ completionScheduled = FALSE
    /\ quotaExceeded \in BOOLEAN
    /\ attempt = 0
    /\ attempts = 0
    /\ errorCode = "none"
    /\ delay = 0
    /\ isOnline = "none"
    /\ disabled = FALSE
    /\ pendingCallbacks = 0
    /\ completionTimers = 0
    /\ modalShown = FALSE

NextStartup ==
    \/ AppInit
    \/ RetryProbe
    \/ DataArrives
    \/ RetryTimer
    \/ RecoveryProbe
    \/ Reinit
    \/ Confirm

SpecStartup == InitStartup /\ [][NextStartup]_vars

-----------------------------------------------------------------------------
(* Paging over a corpus larger than the look-ahead threshold *)

\* BlessingManager.init where shuffleArray draws j = i at every step and so
\* leaves the database order: one of the orders init can produce
BMInitInOrder ==
    /\ pc = "loading"
    /\ LET bm1 == [BM EXCEPT !.allBlessings = Flatten(db)]
           r == LoadProgress(bm1, storage, now)
       IN /\ SetBM(LoadNextPage(r.bm, pageSize))
          /\ storage' = r.storage
          /\ loadOutcome' = r.outcome
          /\ restored' = (r.outcome = "restored")
    /\ pc' = "ready"
    /\ lastOp' = "init"
    /\ picked' = Null
    /\ saveOk' = "none"
    /\ completionScheduled' = FALSE
    /\ attempt' = 1
    /\ attempts' = attempts + 1
    /\ UNCHANGED <<db, pageSize, now, quotaExceeded, errorCode, delay,
                   isOnline, disabled, pendingCallbacks, completionTimers,
                   modalShown>>

InitPaging ==
    /\ db = PagingDatabase
    /\ pageSize \in PagingPageSizes
    /\ storage = Absent
    /\ allBlessings = FreshBM.allBlessings
    /\ loadedBlessings = FreshBM.loadedBlessings
    /\ displayedBlessings = FreshBM.displayedBlessings
    /\ currentBlessing = FreshBM.currentBlessing
    /\ currentPage = FreshBM.currentPage
    /\ clickCount = FreshBM.clickCount
    /\ now = 0
    /\ pc = "loading"
    /\ lastOp = "load"
    /\ picked = Null
    /\ saveOk = "none"
    /\ loadOutcome = "none"
    /\ restored = FALSE
    /\ completionScheduled = FALSE
    /\ quotaExceeded = FALSE
    /\ attempt = 0
    /\ attempts = 0
    /\ errorCode = "none"
    /\ delay = 0
    /\ isOnline = "none"
    /\ disabled = FALSE
    /\ pendingCallbacks = 0
    /\ completionTimers = 0
    /\ modalShown = FALSE

NextPaging ==
    \/ BMInitInOrder
    \/ ShowBlessing
    \/ ShowSpecificBlessing
    \/ Reset

SpecPaging == InitPaging /\ [][NextPaging]_vars

\* a fresh selector with nothing stored, driven by showBlessing alone
InitFresh == Init /\ storage = Absent

NextFresh ==
    \/ BMInit
    \/ ShowBlessing

SpecFresh == InitFresh /\ [][NextFresh]_vars

\* a fresh selector over three items with pages of two, driven by showBlessing
InitExample ==
    /\ db = Database(3)
    /\ pageSize = 2
    /\ storage = Absent
    /\ allBlessings = FreshBM.allBlessings
    /\ loadedBlessings = FreshBM.loadedBlessings
    /\ displayedBlessings = FreshBM.displayedBlessings
    /\ currentBlessing = FreshBM.currentBlessing
    /\ currentPage = FreshBM.currentPage
    /\ clickCount = FreshBM.clickCount
    /\ now = 0
    /\ pc = "loading"
    /\ lastOp = "load"
    /\ picked = Null
    /\ saveOk = "none"
    /\ loadOutcome = "none"
    /\ restored = FALSE
    /\ completionScheduled = FALSE
    /\ quotaExceeded \in BOOLEAN
    /\ attempt = 0
    /\ attempts = 0
    /\ errorCode = "none"
    /\ delay = 0
    /\ isOnline = "none"
    /\ disabled = FALSE
    /\ pendingCallbacks = 0
    /\ completionTimers = 0
    /\ modalShown = FALSE

SpecExample == InitExample /\ [][NextFresh]_vars

-----------------------------------------------------------------------------
(* Vocabulary of the properties *)

CorpusTexts == {Str(allBlessings[i].text) : i \in 1..Len(allBlessings)}

DistinctTexts ==
    \A i, j \in 1..Len(allBlessings) :
        allBlessings[i].text = allBlessings[j].text => i = j

AllSeen == CorpusTexts \subseteq displayedBlessings

\* the results pickUnseen can return in the current state
PickResults == {o.result : o \in GetRandomUnDisplayedBlessing(BM, pageSize)}

IsRecord(st) == st.kind = "object" /\ st.has = AllFields

\* progress objects that lack at least one field, as another writer of the
\* same key may have left them
PartialRecords ==
    {[kind |-> "object", has |-> h,
      displayedBlessings |-> IF "displayedBlessings" \in h THEN d ELSE <<>>,
      currentPage |-> IF "currentPage" \in h THEN 1 ELSE 0,
      clickCount |-> IF "clickCount" \in h THEN 2 ELSE 0,
      timestamp |-> 0] :
        h \in (SUBSET AllFields) \ {AllFields},
        d \in {<<Str("A")>>, <<Str("A"), Str("B")>>}}

\* a page opened over a store that holds a partial progress object written
\* at time 0, less than, exactly or more than seven days ago
InitPartial ==
    /\ db = Database(MaxItems)
    /\ pageSize \in 1..MaxPageSize
    /\ storage \in PartialRecords
    /\ allBlessings = FreshBM.allBlessings
    /\ loadedBlessings = FreshBM.loadedBlessings
    /\ displayedBlessings = FreshBM.displayedBlessings
    /\ currentBlessing = FreshBM.currentBlessing
    /\ currentPage = FreshBM.currentPage
    /\ clickCount = FreshBM.clickCount
    /\ now \in {0, ExpiryMs, ExpiryMs + 1}
    /\ pc = "loading"
    /\ lastOp = "load"
    /\ picked = Null
    /\ saveOk = "none"
    /\ loadOutcome = "none"
    /\ restored = FALSE
    /\ completionScheduled = FALSE
    /\ quotaExceeded \in BOOLEAN
    /\ attempt = 0
    /\ attempts = 0
    /\ errorCode = "none"
    /\ delay = 0
    /\ isOnline = "none"
    /\ disabled = FALSE
    /\ pendingCallbacks = 0
    /\ completionTimers = 0
    /\ modalShown = FALSE

SpecPartial == InitPartial /\ [][NextFresh]_vars

\* databases of up to MaxShuffle items, and the one with a repeated wording
ShuffleDatabases == {Database(n) : n \in 0..MaxShuffle} \cup {DupDatabase}

\* a fresh page over each of them
InitShuffle ==
    /\ db \in ShuffleDatabases
    /\ pageSize = MaxPageSize
    /\ storage = Absent
    /\ allBlessings = FreshBM.allBlessings
    /\ loadedBlessings = FreshBM.loadedBlessings
    /\ displayedBlessings = FreshBM.displayedBlessings
    /\ currentBlessing = FreshBM.currentBlessing
    /\ currentPage = FreshBM.currentPage
    /\ clickCount = FreshBM.clickCount
    /\ now = 0
    /\ pc = "loading"
    /\ lastOp = "load"
    /\ picked = Null
    /\ saveOk = "none"
    /\ loadOutcome = "none"
    /\ restored = FALSE
    /\ completionScheduled = FALSE
    /\ quotaExceeded = FALSE
    /\ attempt = 0
    /\ attempts = 0
    /\ errorCode = "none"
    /\ delay = 0
    /\ isOnline = "none"
    /\ disabled = FALSE
    /\ pendingCallbacks = 0
    /\ completionTimers = 0
    /\ modalShown = FALSE

SpecShuffle == InitShuffle /\ [][NextFresh]_vars

-----------------------------------------------------------------------------
(* The show trigger: handleButtonClick and its 300 ms timer *)

\* a handleButtonClick that sets its timer whether or not one is pending
HandleButtonClickUnguarded ==
    /\ pc = "ready"
    /\ clickCount < MaxClicks
    /\ pendingCallbacks < 2
    /\ disabled' = TRUE
    /\ pendingCallbacks' = pendingCallbacks + 1
    /\ lastOp' = "trigger"
    /\ UNCHANGED <<db, allBlessings, loadedBlessings, displayedBlessings,
                   currentBlessing, currentPage, pageSize, clickCount, storage, now,
                   pc, picked, saveOk, loadOutcome, restored, completionScheduled,
                   quotaExceeded, attempt, attempts, errorCode, delay, isOnline,
                   completionTimers, modalShown>>

\* a click on the display, Space anywhere outside a form control, or Enter or
\* Space on the display (l.879-901): handleButtonClick(blessingDisplay, ...)
\* returns at once while the flag is set, else sets the flag and the timer.
\* The listeners exist once init has run setupEventListeners.
HandleButtonClick ==
    /\ pc = "ready"
    /\ IF disabled
       THEN /\ lastOp' = "ignored"
            /\ UNCHANGED <<disabled, pendingCallbacks>>
       ELSE /\ clickCount < MaxClicks
            /\ disabled' = TRUE
            /\ pendingCallbacks' = pendingCallbacks + 1
            /\ lastOp' = "trigger"
    /\ UNCHANGED <<db, allBlessings, loadedBlessings, displayedBlessings,
                   currentBlessing, currentPage, pageSize, clickCount, storage, now,
                   pc, picked, saveOk, loadOutcome, restored, completionScheduled,
                   quotaExceeded, attempt, attempts, errorCode, delay, isOnline,
                   completionTimers, modalShown>>

\* the timer of handleButtonClick fires (l.163-167): callback(), then the
\* flag is cleared
TimerFires ==
    /\ pendingCallbacks > 0
    /\ ShowBlessingCallback
    /\ pendingCallbacks' = pendingCallbacks - 1
    /\ disabled' = FALSE
    /\ UNCHANGED <<completionTimers, modalShown>>

InitClick == Init /\ storage = Absent

NextClick ==
    \/ BMInit
    \/ HandleButtonClick
    \/ TimerFires
    \/ Reset

\* a timer that has been set fires
SpecClick == InitClick /\ [][NextClick]_vars /\ WF_vars(TimerFires)

-----------------------------------------------------------------------------
(* The completion panel: showCompletion and the 1000 ms timer of l.727 *)

\* showBlessing with its panel followed: a pick that finds nothing calls
\* showCompletion at once (l.664-667); marking an item that completes the
\* displayed set sets the timer of l.726-728
ShowBlessingTimed ==
    /\ ~disabled
    /\ ShowBlessingCallback
    /\ completionScheduled' => completionTimers < MaxTimers
    /\ completionTimers' = completionTimers + (IF completionScheduled' THEN 1 ELSE 0)
    /\ modalShown' = (modalShown \/ picked' = Null)
    /\ UNCHANGED <<disabled, pendingCallbacks>>

\* the timer of l.727 fires: showCompletion() displays the panel (l.811-812)
CompletionTimerFires ==
    /\ completionTimers > 0
    /\ completionTimers' = completionTimers - 1
    /\ modalShown' = TRUE
    /\ lastOp' = "completion"
    /\ UNCHANGED <<db, allBlessings, loadedBlessings, displayedBlessings,
                   currentBlessing, currentPage, pageSize, clickCount, storage, now,
                   pc, picked, saveOk, loadOutcome, restored, completionScheduled,
                   quotaExceeded, attempt, attempts, errorCode, delay, isOnline,
                   disabled, pendingCallbacks>>

InitCompletion == Init /\ storage = Absent

NextCompletion ==
    \/ BMInit
    \/ ShowBlessingTimed
    \/ CompletionTimerFires
    \/ Reset

SpecCompletion == InitCompletion /\ [][NextCompletion]_vars

-----------------------------------------------------------------------------
(* C1..C10 *)

\* C1: from a fresh selector with no saved progress and pick+mark only, over a
\* corpus of N pairwise distinct texts: the picks made so far returned
\* pairwise distinct corpus items (as many seen texts as picks), while fewer
\* than N picks were made the next pick returns a corpus item that is new,
\* and after N picks the next pick reports exhausted, and no earlier.
C1_FreshPicksAreDistinctThenExhausted ==
    (pc = "ready" /\ DistinctTexts) =>
        /\ clickCount <= Len(allBlessings)
        /\ Cardinality(displayedBlessings) = clickCount
        /\ displayedBlessings \subseteq CorpusTexts
        /\ clickCount < Len(allBlessings) =>
              \A r \in PickResults :
                  /\ r # Null
                  /\ \E i \in 1..Len(allBlessings) : allBlessings[i] = r
                  /\ Str(r.text) \notin displayedBlessings
        /\ clickCount = Len(allBlessings) => PickResults = {Null}
        /\ (lastOp = "show" /\ picked = Null) => clickCount = Len(allBlessings)

C1_Witness ==
    /\ DistinctTexts
    /\ Len(allBlessings) >= 2
    /\ currentPage >= 2
    /\ clickCount = Len(allBlessings)
    /\ lastOp = "show"
    /\ picked = Null

\* C2: whatever ran before, the item a showBlessing step gets from pickUnseen
\* has a text that was not in the displayed set when the step began.
C2_PickedWasUnseen ==
    [][(lastOp' = "show" /\ picked' # Null) =>
           Str(picked'.text) \notin displayedBlessings]_vars

C2_Witness ==
    /\ lastOp = "show"
    /\ picked # Null
    /\ restored
    /\ \E n \in 0..Len(allBlessings) : Num(n) \in displayedBlessings
    /\ Cardinality(displayedBlessings) >= 3

\* C3: pickUnseen reports exhausted only when the text of every corpus item is
\* in the displayed set, and returns an item whenever one is still unseen.
C3_ExhaustedOnlyWhenAllSeen ==
    /\ (lastOp = "show" /\ picked = Null) => AllSeen
    /\ (pc = "ready" /\ ~AllSeen) => Null \notin PickResults

\* C4: in a session that restored a saved record over the same corpus, as long
\* as a corpus item is unseen the next pick returns an unseen item (so that
\* repeated picks return them all), and exhaustion is not reported before.
C4_RestoredSessionReturnsTheRest ==
    (pc = "ready" /\ restored /\ IsRecord(storage) /\ ~AllSeen) =>
        /\ ~(lastOp = "show" /\ picked = Null)
        /\ \A r \in PickResults : r # Null /\ Str(r.text) \notin displayedBlessings

\* C5: every element of the displayed set is the text of a corpus item, and
\* the set is no larger than the corpus.
C5_SeenWithinCorpus ==
    pc = "ready" =>
        /\ displayedBlessings \subseteq CorpusTexts
        /\ Cardinality(displayedBlessings) <= Len(allBlessings)

\* C6: over pairwise distinct texts the completion test holds exactly when
\* every corpus item is seen, and showBlessing schedules the completion panel
\* only when every corpus item is seen.
C6_CompleteIffAllSeen ==
    (pc = "ready" /\ DistinctTexts) =>
        /\ IsComplete(BM) <=> AllSeen
        /\ completionScheduled => AllSeen

\* C7: a record that saveProgress has just written is restored by a
\* loadProgress run up to seven days later with the displayed set and the
\* click count of the saving state; and a session that has just restored a
\* full record holds the displayed set and the click count of that record.
C7_SaveLoadRoundTrip ==
    /\ saveOk = "ok" =>
          \A d \in {0, 1, ExpiryMs - 1} :
              LET r == LoadProgress(FreshBM, storage, now + d)
              IN /\ r.outcome = "restored"
                 /\ r.bm.displayedBlessings = displayedBlessings
                 /\ r.bm.clickCount = clickCount
    /\ (lastOp = "init" /\ loadOutcome = "restored" /\ IsRecord(storage)) =>
          /\ displayedBlessings = Range(storage.displayedBlessings)
          /\ clickCount = storage.clickCount

C7_Witness ==
    /\ lastOp = "init"
    /\ loadOutcome = "restored"
    /\ IsRecord(storage)
    /\ clickCount >= 2
    /\ \E n \in 0..Len(allBlessings) : Num(n) \in displayedBlessings
    /\ \E i \in 1..Len(allBlessings) : Str(allBlessings[i].text) \in displayedBlessings

\* C8: where loadProgress is about to run on a stored record with a
\* timestamp, an age above 604,800,000 ms makes it leave the displayed set
\* empty and cursor and click count at 0 and remove the record, and an age of
\* at most 604,800,000 ms makes it restore the record and keep it; and after
\* init found an expired record the store is empty, nothing is seen, and the
\* cursor shows the one page init loads itself.
C8_ExpiryAtSevenDays ==
    /\ (pc = "loading" /\ storage.kind = "object" /\ "timestamp" \in storage.has) =>
          LET r == LoadProgress(BM, storage, now)
          IN IF now - storage.timestamp > 604800000
             THEN /\ r.outcome = "expired"
                  /\ r.bm.displayedBlessings = {}
                  /\ r.bm.currentPage = 0
                  /\ r.bm.clickCount = 0
                  /\ r.storage = Absent
             ELSE /\ r.outcome = "restored"
                  /\ r.bm.displayedBlessings = Range(storage.displayedBlessings)
                  /\ r.bm.currentPage = storage.currentPage
                  /\ r.bm.clickCount = storage.clickCount
                  /\ r.storage = storage
    /\ (lastOp = "init" /\ loadOutcome = "expired") =>
          /\ storage = Absent
          /\ displayedBlessings = {}
          /\ clickCount = 0
          /\ currentPage = 1
    /\ (lastOp = "init" /\ loadOutcome = "restored" /\ IsRecord(storage)) =>
          now - storage.timestamp <= 604800000

C8_Witness ==
    /\ lastOp = "init"
    /\ loadOutcome = "expired"
    /\ now = ExpiryMs + 1

\* C9: after init has run loadProgress, the store holds no malformed or
\* non-object value any more (such a value has been removed), and loading
\* such a value leaves displayed set, cursor and click count at their defaults.
C9_MalformedIsRemoved ==
    /\ lastOp = "init" =>
          storage.kind \notin {"empty", "garbage", "null", "number", "string",
                               "boolean", "array"}
    /\ (pc = "loading" /\ storage.kind \notin {"absent", "object"}) =>
          LET r == LoadProgress(BM, storage, now)
          IN /\ r.bm.displayedBlessings = {}
             /\ r.bm.currentPage = 0
             /\ r.bm.clickCount = 0

\* C10: a show step whose store write fails leaves the store as it was and
\* the in-memory state exactly as marking left it before saveProgress ran,
\* and that is the in-memory state the same step reaches when the write
\* succeeds: the handler completes and later picks read the same state.
\* The same holds of a showSpecificBlessing step whose writes fail.
C10_FailedSaveChangesNothing ==
    [][/\ (lastOp' = "show" /\ saveOk' = "failed") =>
           /\ storage' = storage
           /\ \E p \in GetRandomUnDisplayedBlessing(BM, pageSize) :
                 /\ p.result = picked'
                 /\ BM' = MarkSeen(p.bm, p.result)
           /\ \E o \in ShowBlessingOutcomes(BM, storage, now, pageSize, Null, FALSE) :
                 /\ o.saveOk = "ok"
                 /\ o.bm = BM'
                 /\ o.picked = picked'
                 /\ o.completion = completionScheduled'
       /\ (lastOp' = "select" /\ saveOk' = "failed") =>
           /\ storage' = storage
           /\ \E index \in 0..(Len(allBlessings) - 1) :
                 \E o \in ShowSpecificBlessingOutcomes(BM, storage, now, pageSize,
                                                        index, FALSE) :
                    /\ o.saveOk = "ok"
                    /\ o.bm = BM'
                    /\ o.completion = completionScheduled']_vars

C10_Witness ==
    /\ lastOp = "show"
    /\ saveOk = "failed"
    /\ picked # Null
    /\ clickCount >= 2
    /\ Cardinality(displayedBlessings) >= 2

-----------------------------------------------------------------------------
(* C11..C20 *)

\* the items loadNextPage appends to the window of bm
NextSlice(bm, ps) ==
    SubSeq(LoadNextPage(bm, ps).loadedBlessings,
           Len(bm.loadedBlessings) + 1,
           Len(LoadNextPage(bm, ps).loadedBlessings))

FirstPage == SubSeq(allBlessings, 1, Min(pageSize, Len(allBlessings)))

InWindow(bm, text) ==
    \E i \in 1..Len(bm.loadedBlessings) : bm.loadedBlessings[i].text = text

\* C11: a reset step ends with the displayed set empty, the window equal to
\* the first pageSize corpus items in corpus order, one page counted as
\* loaded, the click count 0, the stored record removed and the corpus as it
\* was before the step.
C11_ResetPostcondition ==
    [][lastOp' = "reset" =>
           /\ displayedBlessings' = {}
           /\ loadedBlessings' = FirstPage
           /\ currentPage' = 1
           /\ clickCount' = 0
           /\ storage' = Absent
           /\ allBlessings' = allBlessings]_vars

C11_Witness ==
    /\ lastOp = "reset"
    /\ restored
    /\ DistinctTexts
    /\ Len(allBlessings) > pageSize

C13_SelectOutsideWindowKeepsCursor ==
    pc = "ready" =>
        \A k \in 0..(Len(allBlessings) - 1) :
            ~InWindow(BM, allBlessings[k + 1].text) =>
                \A o \in ShowSpecificBlessingOutcomes(BM, storage, now, pageSize, k,
                                                       quotaExceeded) :
                    /\ o.bm.currentBlessing = allBlessings[k + 1]
                    /\ Str(allBlessings[k + 1].text) \in o.bm.displayedBlessings
                    /\ o.bm.currentPage = currentPage
                    /\ o.bm.allBlessings = allBlessings
                    /\ NextSlice(o.bm, pageSize) = NextSlice(BM, pageSize)

\* a select step has appended an item beyond the pages loaded so far
C13_Witness ==
    /\ lastOp = "select"
    /\ ~restored
    /\ Len(allBlessings) >= 2
    /\ currentPage = 1
    /\ Len(loadedBlessings) > pageSize
    /\ currentBlessing = loadedBlessings[Len(loadedBlessings)]
    /\ Str(currentBlessing.text) \in displayedBlessings

\* C14: when init has run, the window is exactly the first page of the
\* corpus init has just shuffled, whether or not a record was restored.
C14_InitLoadsFirstPage ==
    lastOp = "init" => loadedBlessings = FirstPage

\* C17: the window is the prefix of the corpus of length
\* min(pageSize * currentPage, N), in corpus order.
C17_WindowIsPrefix ==
    pc = "ready" =>
        loadedBlessings =
            SubSeq(allBlessings, 1, Min(pageSize * currentPage, Len(allBlessings)))

\* C15: a start-up that finds the database undefined or an empty mapping
\* never ends without the selector: when nothing more is scheduled the
\* fallback mapping has been substituted and allBlessings holds exactly its
\* five items, whatever the probes answered.
C15_FallbackWhateverTheProbe ==
    /\ pc = "failed" => OperationError(db) = "none"
    /\ pc = "ready" =>
          /\ OperationError(db) = "none"
          /\ db = FallbackData =>
                /\ Len(allBlessings) = 5
                /\ allBlessings \in ShuffleArray(Flatten(FallbackData))

\* C16: from the page load on, the start-up operation runs at most three
\* times, and a start-up none of whose attempts succeeded has shown the
\* error panel.
C16_StartupBounded ==
    /\ attempts <= MaxRetries
    /\ (pc = "failed" \/ (pc = "ready" /\ db = FallbackData)) => errorCode # "none"

\* C18: within a page session, from a state in which every item of a
\* non-empty corpus is seen, a show step reports exhausted, no show or select
\* step changes the displayed set, and after the reset step pickUnseen
\* returns items again.
C18_CompleteIsTerminal ==
    [][(pc = "ready" /\ Len(allBlessings) > 0 /\ AllSeen) =>
           /\ lastOp' = "show" => picked' = Null
           /\ lastOp' \in {"show", "select"} =>
                 displayedBlessings' = displayedBlessings
           /\ lastOp' = "reset" => (Null \notin PickResults)']_vars

\* C19: with fewer than 10 unseen items in the window and a page left,
\* pickUnseen appends exactly the next page, counts it, and returns any of
\* the unseen items of the enlarged window (exhausted if it holds none); with
\* 10 or more unseen items in the window it loads nothing and returns any of
\* the unseen items of the window.
C19_LoadAheadByThreshold ==
    pc = "ready" =>
        LET unseen == UnDisplayed(BM)
            N == Len(allBlessings)
            outcomes == GetRandomUnDisplayedBlessing(BM, pageSize)
            page == SubSeq(allBlessings, currentPage * pageSize + 1,
                           Min((currentPage + 1) * pageSize, N))
            enlarged == [BM EXCEPT !.loadedBlessings = @ \o page,
                                   !.currentPage = @ + 1]
        IN /\ (Len(unseen) < 10 /\ currentPage * pageSize < N) =>
                 /\ \A o \in outcomes : o.bm = enlarged
                 /\ {o.result : o \in outcomes} =
                        IF UnDisplayed(enlarged) = <<>> THEN {Null}
                        ELSE Range(UnDisplayed(enlarged))
           /\ Len(unseen) >= 10 =>
                 /\ \A o \in outcomes : o.bm = BM
                 /\ {o.result : o \in outcomes} = Range(unseen)

\* a show step has picked without loading while a page was left
C19_Witness ==
    /\ lastOp = "show"
    /\ picked # Null
    /\ currentPage = 1
    /\ currentPage * pageSize < Len(allBlessings)
    /\ Len(UnDisplayed(BM)) < 10

\* C20: a pickUnseen call that reports exhausted has loaded the whole
\* corpus: currentPage * pageSize >= N when it returns.
C20_ExhaustedOnlyWhenAllLoaded ==
    /\ (lastOp = "show" /\ picked = Null) =>
          currentPage * pageSize >= Len(allBlessings)
    /\ pc = "ready" =>
          \A o \in GetRandomUnDisplayedBlessing(BM, pageSize) :
              o.result = Null =>
                  o.bm.currentPage * pageSize >= Len(o.bm.allBlessings)

-----------------------------------------------------------------------------
(* C21..C30 *)

\* C21 as stated: three items, pages of two; init loads two items, the first
\* two picks load no page, the third pick loads the page with the third
\* item, three picks see all three items and the fourth reports exhausted.
C21_ThirdPickLoads ==
    pc = "ready" =>
        /\ clickCount <= 3
        /\ clickCount <= 2 =>
              /\ currentPage = 1
              /\ Len(loadedBlessings) = 2
              /\ Null \notin PickResults
        /\ clickCount = 3 =>
              /\ currentPage = 2
              /\ Len(loadedBlessings) = 3
              /\ AllSeen
              /\ PickResults = {Null}

\* C21, amended: init loads two items; the first pick, finding fewer than 10
\* unseen items and a page left, loads the page with the third item and the
\* later picks load none; three picks see all three items, each a new one,
\* and the fourth reports exhausted.
C21_FirstPickLoads ==
    pc = "ready" =>
        /\ clickCount <= 3
        /\ Cardinality(displayedBlessings) = clickCount
        /\ clickCount = 0 =>
              /\ currentPage = 1
              /\ loadedBlessings = SubSeq(allBlessings, 1, 2)
              /\ \A o \in GetRandomUnDisplayedBlessing(BM, pageSize) :
                    /\ o.bm.currentPage = 2
                    /\ o.bm.loadedBlessings = allBlessings
                    /\ o.result # Null
        /\ clickCount \in 1..2 =>
              /\ currentPage = 2
              /\ loadedBlessings = allBlessings
              /\ \A o \in GetRandomUnDisplayedBlessing(BM, pageSize) :
                    /\ o.bm = BM
                    /\ o.result # Null
                    /\ Str(o.result.text) \notin displayedBlessings
        /\ clickCount = 3 =>
              /\ currentPage = 2
              /\ loadedBlessings = allBlessings
              /\ AllSeen
              /\ \A o \in GetRandomUnDisplayedBlessing(BM, pageSize) :
                    o.bm = BM /\ o.result = Null

\* the fourth pick has reported exhausted
C21_Witness ==
    /\ Len(allBlessings) = 3
    /\ pageSize = 2
    /\ clickCount = 3
    /\ currentPage = 2
    /\ lastOp = "show"
    /\ picked = Null

\* C22 as stated: loadNextPage never runs with the cursor at or past the end
\* of a non-empty corpus, so that in every state, restored ones included, the
\* page cursor is at most ceil(|Corpus| / page_size).
C22_CursorWithinCorpus ==
    (pc = "ready" /\ Len(allBlessings) > 0) =>
        currentPage <= (Len(allBlessings) + pageSize - 1) \div pageSize

\* bm after a page load in range, as the claim C23 describes it: the corpus
\* items number p * ps .. min((p + 1) * ps, N) - 1 (counted from 0) appended
\* in order, the cursor p + 1, everything else as in bm
WithNextPage(bm, ps) ==
    LET p == bm.currentPage
        N == Len(bm.allBlessings)
        count == Min((p + 1) * ps, N) - p * ps
    IN [bm EXCEPT !.loadedBlessings =
                      @ \o [i \in 1..count |-> bm.allBlessings[p * ps + i]],
                  !.currentPage = p + 1]

\* C23: with the cursor p inside the corpus (p * pageSize < N), loadNextPage
\* appends exactly the corpus items p * pageSize .. min((p + 1) * pageSize, N)
\* - 1 in order and sets the cursor to p + 1, leaving the displayed set and
\* the corpus as they were; a step whose only effect is such a load (a pick
\* that loads a page and then reports exhausted) leaves the stored record as
\* it was too.
C23_LoadNextPageFrame ==
    [][ /\ (pc = "ready" /\ currentPage * pageSize < Len(allBlessings)) =>
              /\ LoadNextPage(BM, pageSize) = WithNextPage(BM, pageSize)
              /\ LoadNextPage(BM, pageSize).displayedBlessings = displayedBlessings
              /\ LoadNextPage(BM, pageSize).allBlessings = allBlessings
        /\ (lastOp' = "show" /\ picked' = Null /\ currentPage' # currentPage) =>
              /\ currentPage * pageSize < Len(allBlessings)
              /\ BM' = WithNextPage(BM, pageSize)
              /\ storage' = storage
      ]_vars

\* a pick has loaded a page in range and reported exhausted: the load is all
\* the step did
C23_Witness ==
    /\ lastOp = "show"
    /\ picked = Null
    /\ currentPage >= 2
    /\ currentPage * pageSize < Len(allBlessings)
    /\ loadedBlessings[Len(loadedBlessings)] = allBlessings[currentPage * pageSize]

\* C24: the displayed set only grows between two resets: every showBlessing
\* step (pick, page load, mark, save) and every showSpecificBlessing step
\* leaves a superset of the set it found, and so does init (it fills the
\* empty set of a new page from the store); the only steps after which an
\* element is gone are reset and the page being closed.
C24_SeenSetGrows ==
    [][ /\ lastOp' \in {"show", "select", "init"} =>
               displayedBlessings \subseteq displayedBlessings'
        /\ ~(displayedBlessings \subseteq displayedBlessings') =>
               \/ lastOp' = "reset" /\ displayedBlessings' = {}
               \/ lastOp' = "load"
      ]_vars

\* shows and selects have added to a set restored from the store
C24_Witness ==
    /\ restored
    /\ lastOp \in {"show", "select"}
    /\ saveOk # "none"
    /\ Cardinality(displayedBlessings) >= 3

\* C25: a stored progress object that lacks fields and is not expired (its
\* timestamp is missing or at most seven days old) is accepted by loadProgress
\* and left in the store; each field it lacks takes its default (displayed
\* set empty, page cursor 0, click count 0) and each field it has is
\* restored; init then loads one page from the restored cursor on.
C25_MissingFieldsDefault ==
    LET st == storage
        hasDisplayed == "displayedBlessings" \in st.has
        hasPage == "currentPage" \in st.has
        hasCount == "clickCount" \in st.has
        fresh == "timestamp" \notin st.has \/ now - st.timestamp <= ExpiryMs
        r == LoadProgress(BM, st, now)
    IN (st.kind = "object" /\ st.has # AllFields /\ fresh) =>
          /\ pc = "loading" =>
                /\ r.outcome = "restored"
                /\ r.storage = st
                /\ r.bm.displayedBlessings =
                       (IF hasDisplayed THEN Range(st.displayedBlessings) ELSE {})
                /\ r.bm.currentPage = (IF hasPage THEN st.currentPage ELSE 0)
                /\ r.bm.clickCount = (IF hasCount THEN st.clickCount ELSE 0)
          /\ lastOp = "init" =>
                /\ loadOutcome = "restored"
                /\ displayedBlessings =
                       (IF hasDisplayed THEN Range(st.displayedBlessings) ELSE {})
                /\ currentPage = (IF hasPage THEN st.currentPage ELSE 0) + 1
                /\ clickCount = (IF hasCount THEN st.clickCount ELSE 0)

\* init has restored a record that holds nothing but displayedBlessings
C25_Witness ==
    /\ lastOp = "init"
    /\ storage.kind = "object"
    /\ storage.has = {"displayedBlessings"}
    /\ displayedBlessings = {Str("A"), Str("B")}
    /\ currentPage = 1
    /\ clickCount = 0

\* C26: at most one show callback is pending, and one is pending exactly
\* while the display is disabled; a trigger that arrives while one is pending
\* sets no timer and changes nothing of the manager, the click count or the
\* store; every showBlessing run consumes the one pending callback and
\* enables the display again; a disabled display is enabled again.
C26_DebounceByDisable ==
    /\ [](pendingCallbacks \in {0, 1} /\ (disabled <=> pendingCallbacks = 1))
    /\ [][ /\ (disabled /\ lastOp' \in {"ignored", "trigger"}) =>
                  /\ lastOp' = "ignored"
                  /\ pendingCallbacks' = pendingCallbacks
                  /\ disabled'
                  /\ BM' = BM
                  /\ storage' = storage
           /\ lastOp' = "show" =>
                  /\ disabled /\ pendingCallbacks = 1
                  /\ ~disabled' /\ pendingCallbacks' = 0
                  /\ clickCount' \in {clickCount, clickCount + 1}
         ]_vars
    /\ (disabled ~> ~disabled)

\* a trigger was ignored while a callback was pending, after an earlier
\* callback had shown an item
C26_Witness ==
    /\ lastOp = "ignored"
    /\ disabled
    /\ pendingCallbacks = 1
    /\ clickCount = 1

\* C27: within one retryOperation(op, 3, 1000) call the operation is invoked
\* only at the start and when a delay timer fires, never once it has
\* succeeded: a successful invocation ends the call with no probe and no
\* timer; the timer set after failed attempt k is of k * 1000 ms (1000 ms
\* after the first, 2000 ms after the second) and the invocation that follows
\* it is attempt k + 1; a failed third attempt hands its own error on with no
\* probe and no timer, while a failed earlier attempt goes to the probe.
C27_RetrySchedule ==
    /\ [](pc = "delaying" =>
             \/ attempt = 1 /\ delay = 1000
             \/ attempt = 2 /\ delay = 2000)
    /\ [][ LET invoked == attempts' = attempts + 1
               failure == OperationError(db)
           IN /\ invoked => pc \in {"loading", "delaying", "reinitScheduled"}
              /\ pc = "ready" => attempts' = attempts
              /\ (invoked /\ pc = "delaying") => attempt' = attempt + 1
              /\ (invoked /\ failure = "none") =>
                    /\ pc' = "ready"
                    /\ delay' = 0 /\ isOnline' = "none"
                    /\ errorCode' = errorCode
              /\ (invoked /\ failure # "none" /\ attempt' < MaxRetries) =>
                    pc' = "probing" /\ delay' = 0
              /\ (invoked /\ failure # "none" /\ attempt' = MaxRetries) =>
                    /\ pc' \notin {"probing", "delaying"}
                    /\ delay' = 0 /\ isOnline' = "none"
                    /\ errorCode' = failure
         ]_vars

\* the third attempt has failed after waits of 1000 and 2000 ms and its error
\* has reached the error panel
C27_Witness ==
    /\ attempt = 3
    /\ attempts = 3
    /\ errorCode = "BLESSING_DATA_INVALID"
    /\ lastOp = "init"

\* C28: when the probe after a failed attempt that is not the last resolves
\* to unreachable, retryOperation ends there: no timer is set, the error
\* shown is NETWORK_ERROR, not the code of the attempt's failure, and the
\* operation is not invoked again by this call (the next invocation, if any,
\* is the first attempt of a new start-up).
C28_ProbeGatesRetry ==
    /\ [][ (pc = "probing" /\ isOnline' = "offline") =>
              /\ attempt < MaxRetries
              /\ pc' = "recoveryProbing"
              /\ errorCode' = "NETWORK_ERROR"
              /\ errorCode' # OperationError(db)
              /\ delay' = 0
              /\ attempts' = attempts /\ attempt' = attempt
         ]_vars
    /\ [][ (pc \in {"recoveryProbing", "reinitScheduled", "confirmScheduled"}
            /\ attempts' = attempts + 1) => attempt' = 1 ]_vars
    /\ [](pc \in {"recoveryProbing", "reinitScheduled", "confirmScheduled", "failed"}
            => errorCode = "NETWORK_ERROR" /\ delay = 0)

\* the probe after the second failed attempt has reported unreachable
C28_Witness ==
    /\ pc = "recoveryProbing"
    /\ attempt = 2
    /\ isOnline = "offline"
    /\ errorCode = "NETWORK_ERROR"
    /\ db = EmptyMapping

\* the places of the database: category number and position in the category
Places ==
    UNION {{<<c, i>> : i \in 1..Len(db[c].blessings)} : c \in 1..Len(db)}

ItemAt(pl) == [text |-> db[pl[1]].blessings[pl[2]], category |-> db[pl[1]].category]

Orderings(n) ==
    {f \in [1..n -> 1..n] : \A i, j \in 1..n : i # j => f[i] # f[j]}

\* C29: the corpus init leaves holds each (text, category) of the database
\* as often as the database holds it, no more and no fewer items; and before
\* init runs, every ordering of the database's items is one loadAllBlessings
\* can produce, and it can produce nothing else.
C29_ShuffleIsPermutation ==
    /\ pc = "ready" =>
          /\ Len(allBlessings) = Cardinality(Places)
          /\ \A pl \in Places :
                Cardinality({k \in 1..Len(allBlessings) : allBlessings[k] = ItemAt(pl)})
                    = Cardinality({q \in Places : ItemAt(q) = ItemAt(pl)})
    /\ pc = "loading" =>
          LET items == Flatten(db)
          IN {bm.allBlessings : bm \in LoadAllBlessings(BM, db)}
                = {[k \in 1..Len(items) |-> items[f[k]]] :
                      f \in Orderings(Len(items))}

\* init has left four items in the order D, C, B, A
C29_Witness ==
    /\ lastOp = "init"
    /\ Len(allBlessings) = 4
    /\ allBlessings[1].text = "D"
    /\ allBlessings[2].text = "C"
    /\ allBlessings[3].text = "B"
    /\ allBlessings[4].text = "A"

-----------------------------------------------------------------------------
(* C31..C33 *)

\* C31 as stated: in every state and for every keyword, a search result has
\* displayed = true exactly when the text of its item is in the displayed
\* set, however the item came to be shown.
C31_DisplayedFlagIsSeen ==
    pc = "ready" =>
        \A keyword \in Keywords :
            LET results == SearchBlessings(BM, keyword)
            IN \A k \in 1..Len(results) :
                  results[k].displayed <=>
                      Str(results[k].text) \in displayedBlessings

\* C32: showSpecificBlessing with an index below 0 or at or above the corpus
\* length does nothing: its one outcome has the manager, the click count and
\* the stored record as they were, with no save attempted and no completion
\* scheduled; and a select step that attempted no save (only an index out of
\* range makes one) has changed none of them.
C32_SelectOutOfRangeIsNoOp ==
    [][ /\ pc = "ready" =>
              \A index \in {-2, -1, Len(allBlessings), Len(allBlessings) + 1} :
                  ShowSpecificBlessingOutcomes(BM, storage, now, pageSize, index,
                                               quotaExceeded)
                      = {[bm |-> BM, storage |-> storage, saveOk |-> "none",
                          completion |-> FALSE]}
        /\ (lastOp' = "select" /\ saveOk' = "none") =>
              /\ BM' = BM
              /\ storage' = storage
              /\ ~completionScheduled'
        /\ (lastOp' = "select" /\ saveOk' # "none") =>
              \E i \in 1..Len(allBlessings) : currentBlessing' = allBlessings[i]
      ]_vars

\* an index out of range was selected after items had been shown and saved
C32_Witness ==
    /\ lastOp = "select"
    /\ saveOk = "none"
    /\ clickCount >= 1
    /\ currentBlessing # Null
    /\ IsRecord(storage)
    /\ restored

\* C33 as stated: when the completion timer fires and the panel is displayed,
\* every corpus item is (still) seen; a reset between the scheduling and the
\* firing keeps the panel from being displayed over the emptied progress.
C33_PanelOnlyWhenComplete ==
    (lastOp = "completion" /\ modalShown) => AllSeen

====
